---- MODULE Spec2Model ----
(***************************************************************************)
(* Model of scripts/mine_blowout_priors.py: the resumable blowout-prior    *)
(* mining pipeline (load manifest and raw cache, discover games, per-game  *)
(* line-score fetch, classification and fallback metrics, batched flushes  *)
(* to the raw and manifest CSV files, final aggregation).                  *)
(***************************************************************************)
EXTENDS Integers, Sequences, FiniteSets, TLC

(* ---------------- CONFIG (mine_blowout_priors.py 48-68) ---------------- *)
BLOWOUT_MARGIN_Q4 == 15
CLOSE_MARGIN_Q4 == 10
BATCH_SIZE == 10
\* possessions
BASELINE_MIN_POSS == 100
TREATMENT_MIN_POSS == 20
\* 0.35, in ten-thousandths (fta_rate is rounded to four decimals)
CLOSE_FTA_RATE_MAX == 3500
ENABLE_FOUL_FILTER == TRUE

(* ---------------- bounds of the model ---------------- *)
\* number of completed games the upstream season can hold
NGames == 11
\* number of events of the environment in one behaviour: a run is started, a
\* request fails, an exception is raised in main's try body
MaxEvents == 3
\* largest points total through three quarters drawn for a synthetic game
MaxPts == 20
\* largest number of close rows drawn for one team of a synthetic raw frame
MaxCloseRows == 2

(* ---------------- values ---------------- *)
\* Python None / a missing cell (NaN) in a numeric column
NoneVal == -1
\* Python None in an upstream string column
NoneStr == "<None>"
\* pandas NaN as read back from a CSV cell
NaN == "<NaN>"

Abs(x) == IF x < 0 THEN -x ELSE x

SeqToSet(s) == {s[k] : k \in 1..Len(s)}

\* the strings pandas.read_csv turns into NaN by default (keep_default_na=True),
\* also in a column read with dtype str
NaValues == {"", "#N/A", "#N/A N/A", "#NA", "-1.#IND", "-1.#QNAN", "-NaN", "-nan",
             "1.#IND", "1.#QNAN", "<NA>", "N/A", "NA", "NULL", "NaN", "None",
             "n/a", "nan", "null"}

\* one cell of a column read by read_csv with dtype str
ReadCsvStr(cell) == IF cell \in NaValues THEN NaN ELSE cell

\* str.strip() on the abbreviations the model draws
Strip(s) == CASE s = "MIA " -> "MIA"
              [] s = " " -> ""
              [] OTHER -> s

(* ---------------- upstream data ---------------- *)
\* the numbers of completed games a run may find: the season's first game or
\* two, and all of its games
SeasonSizes == {1, 2, NGames}

LineCols == {"TEAM_ID", "TEAM_ABBREVIATION", "PTS_QTR1", "PTS_QTR2", "PTS_QTR3"}

LineRow(tid, q1, q2, q3) ==
    [TEAM_ID |-> tid, PTS_QTR1 |-> q1, PTS_QTR2 |-> q2, PTS_QTR3 |-> q3]

StatRow(tid, abbr, pts, fga, fta, tov, oreb, min) ==
    [TEAM_ID |-> tid, TEAM_ABBREVIATION |-> abbr, PTS |-> pts, FGA |-> fga,
     FTA |-> fta, TOV |-> tov, OREB |-> oreb, MIN |-> min]

\* a summary response: the list of tables boxscoresummaryv2 returns
Summary(lineRows) ==
    << [columns |-> {"GAME_ID", "GAME_STATUS_ID"}, rows |-> << [GAME_ID |-> 0] >>],
       [columns |-> LineCols \cup {"GAME_ID"}, rows |-> lineRows] >>

\* The season the upstream serves: game g is of kind ((g - 1) % 8) + 1.
\*  1 blowout (+20/-20)     2 blowout (-15/+15), one team without abbreviation
\*  3 medium (+12/-12)      4 close (+5/-5)         5 a stat cell is None
\*  6 one team row only in the finder result         7 line score with one row
\*  8 blowout, both teams with no possessions
GameKind(g) == ((g - 1) % 8) + 1

UpstreamSummary(g) ==
    CASE GameKind(g) = 1 -> Summary(<< LineRow(1, 30, 30, 30), LineRow(2, 25, 25, 20) >>)
      [] GameKind(g) = 2 -> Summary(<< LineRow(4, 20, NoneVal, 20), LineRow(1, 20, 20, 15) >>)
      [] GameKind(g) = 3 -> Summary(<< LineRow(2, 20, 20, 20), LineRow(3, 24, 24, 24) >>)
      [] GameKind(g) = 4 -> Summary(<< LineRow(3, 25, 25, 25), LineRow(1, 25, 25, 20) >>)
      [] GameKind(g) = 5 -> Summary(<< LineRow(1, 30, 30, 30), LineRow(3, 20, 20, 20) >>)
      [] GameKind(g) = 6 -> Summary(<< LineRow(2, 30, 30, 30), LineRow(3, 20, 20, 20) >>)
      [] GameKind(g) = 7 -> Summary(<< LineRow(1, 30, 30, 30) >>)
      [] OTHER -> Summary(<< LineRow(2, 20, 20, 20), LineRow(1, 30, 30, 30) >>)

\* the rows of all_games_df (LeagueGameFinder) with GAME_ID = g
UpstreamStats(g) ==
    CASE GameKind(g) = 1 -> << StatRow(1, "BOS", 110, 80, 20, 15, 10, 240),
                               StatRow(2, "LAL", 90, 85, 10, 12, 8, 240) >>
      [] GameKind(g) = 2 -> << StatRow(4, NoneStr, 88, 80, 20, 15, 10, 240),
                               StatRow(1, "BOS", 92, 80, 20, 15, 10, 240) >>
      [] GameKind(g) = 3 -> << StatRow(2, "LAL", 95, 80, 20, 15, 10, 240),
                               StatRow(3, "MIA ", 105, 80, 20, 15, 10, 240) >>
      [] GameKind(g) = 4 -> << StatRow(3, "MIA ", 100, 82, 25, 14, 9, 240),
                               StatRow(1, "BOS", 98, 80, 30, 10, 11, 240) >>
      [] GameKind(g) = 5 -> << StatRow(1, "BOS", 110, 80, 20, 15, 10, 240),
                               StatRow(3, "MIA ", 90, NoneVal, 10, 12, 8, 240) >>
      [] GameKind(g) = 6 -> << StatRow(2, "LAL", 110, 80, 20, 15, 10, 240) >>
      [] GameKind(g) = 7 -> << StatRow(1, "BOS", 110, 80, 20, 15, 10, 240),
                               StatRow(2, "LAL", 90, 85, 10, 12, 8, 240) >>
      [] OTHER -> << StatRow(2, "LAL", 0, 0, 0, 0, 0, 240),
                     StatRow(1, "BOS", 0, 10, 0, 0, 10, 240) >>

(* ---------------- extract_line_score_table (154-159) ---------------- *)
RECURSIVE FirstTable(_, _)
FirstTable(dfs, k) ==
    IF k > Len(dfs) THEN << >>
    ELSE IF LineCols \subseteq dfs[k].columns /\ Len(dfs[k].rows) >= 2
         THEN << dfs[k] >>
         ELSE FirstTable(dfs, k + 1)

\* << >> stands for None, << d >> for the table found
extract_line_score_table(dfs) == FirstTable(dfs, 1)

(* ---------------- get_q3_margins (189-202) ---------------- *)
\* pd.to_numeric(errors="coerce").fillna(0).astype(int)
ToNumericFill0(x) == IF x = NoneVal THEN 0 ELSE x

PtsEnterQ4(r) ==
    ToNumericFill0(r.PTS_QTR1) + ToNumericFill0(r.PTS_QTR2) + ToNumericFill0(r.PTS_QTR3)

\* the dict {t1_id: t1 - t2, t2_id: t2 - t1}: a later equal key overwrites the first
MarginsDict(t1_id, t1_pts, t2_id, t2_pts) ==
    [t \in {t1_id, t2_id} |-> IF t = t2_id THEN t2_pts - t1_pts ELSE t1_pts - t2_pts]

\* None is [ok |-> FALSE], a dict is [ok |-> TRUE, m |-> dict]; exc is the kind
\* of the exception the bare except of line 202 swallowed ("" when none was
\* raised). `fails` is the request of line 191 raising.
get_q3_margins(dfs, fails) ==
    LET line == extract_line_score_table(dfs) IN
    IF fails THEN [ok |-> FALSE, m |-> << >>, exc |-> "ConnectionError"]
    ELSE IF line = << >> \/ Len(line[1].rows) < 2 THEN [ok |-> FALSE, m |-> << >>, exc |-> ""]
    ELSE LET t1 == line[1].rows[1]
             t2 == line[1].rows[2]
         IN  IF t1.TEAM_ID = NoneVal \/ t2.TEAM_ID = NoneVal
             THEN [ok |-> FALSE, m |-> << >>, exc |-> "ValueError"]   \* int(NaN)
             ELSE [ok |-> TRUE, exc |-> "",
                   m |-> MarginsDict(t1.TEAM_ID, PtsEnterQ4(t1), t2.TEAM_ID, PtsEnterQ4(t2))]

(* ---------------- fetch_q4_rows_fallback (204-250) ---------------- *)
\* lines 218-223 with > for >= in the blowout test
ClassifyStrict(margin) ==
    IF Abs(margin) > BLOWOUT_MARGIN_Q4
    THEN << "blowout", IF margin > 0 THEN "leading" ELSE "trailing" >>
    ELSE IF Abs(margin) <= CLOSE_MARGIN_Q4
         THEN << "close", "neutral" >>
         ELSE << >>

\* lines 218-223: the (game_state, team_state) of a margin, << >> for "continue"
Classify(margin) ==
    IF Abs(margin) >= BLOWOUT_MARGIN_Q4
    THEN << "blowout", IF margin > 0 THEN "leading" ELSE "trailing" >>
    ELSE IF Abs(margin) <= CLOSE_MARGIN_Q4
         THEN << "close", "neutral" >>
         ELSE << >>

\* str(row.get("TEAM_ABBREVIATION") or "").strip()
TeamAbbr(x) == IF x = NoneStr \/ x = "" THEN "" ELSE Strip(x)

\* float(x) raises TypeError on None
FloatRaises(x) == x = NoneVal

\* line 234 in hundredths: 100 * (fga + 0.44 * fta - oreb + tov)
Poss100(r) == 100 * r.FGA + 44 * r.FTA - 100 * r.OREB + 100 * r.TOV

\* one iteration of the loop of lines 211-245 on one finder row:
\* "skip" (continue), "exc" (an exception is raised) or "row" (a row is appended)
RowResult(game_id, margins, r) ==
    IF r.TEAM_ID = NoneVal THEN [t |-> "skip"]
    ELSE IF r.TEAM_ID \notin DOMAIN margins THEN [t |-> "skip"]
    ELSE IF Classify(margins[r.TEAM_ID]) = << >> THEN [t |-> "skip"]
    ELSE IF \E x \in {r.PTS, r.FGA, r.FTA, r.TOV, r.OREB, r.MIN} : FloatRaises(x)
         THEN [t |-> "exc", kind |-> "TypeError"]
    ELSE IF Poss100(r) <= 0 THEN [t |-> "skip"]
    ELSE [t |-> "row",
          row |-> [game_id |-> game_id, team |-> TeamAbbr(r.TEAM_ABBREVIATION),
                   game_state |-> Classify(margins[r.TEAM_ID])[1],
                   team_state |-> Classify(margins[r.TEAM_ID])[2],
                   poss |-> Poss100(r) \div 4]]

RECURSIVE RowsLoop(_, _, _, _, _)
RowsLoop(game_id, margins, game_rows, k, acc) ==
    IF k > Len(game_rows)
    THEN [rows |-> acc, status |-> IF acc # << >> THEN "DONE" ELSE "SKIP_MEDIUM", exc |-> ""]
    ELSE LET res == RowResult(game_id, margins, game_rows[k]) IN
         CASE res.t = "exc" -> [rows |-> << >>, status |-> "ERROR_" \o res.kind, exc |-> res.kind]
           [] res.t = "row" -> RowsLoop(game_id, margins, game_rows, k + 1, Append(acc, res.row))
           [] OTHER -> RowsLoop(game_id, margins, game_rows, k + 1, acc)

fetch_q4_rows_fallback(game_id, margins, game_rows) ==
    IF Len(game_rows) < 2 THEN [rows |-> << >>, status |-> "ERROR_NO_DATA", exc |-> ""]
    ELSE RowsLoop(game_id, margins, game_rows, 1, << >>)

(* ---------------- CSV files (161-174) ---------------- *)
\* a manifest entry as staged by main (processed_at_utc, a wall-clock stamp no
\* decision reads, is left out)
Entry(gid, status, reason) == [game_id |-> gid, status |-> status, reason |-> reason]

\* load_manifest: the manifest file as the DataFrame read_csv gives
load_manifest(file) ==
    [k \in 1..Len(file) |-> [game_id |-> file[k].game_id,
                             status |-> ReadCsvStr(file[k].status),
                             reason |-> ReadCsvStr(file[k].reason)]]

\* load_raw_cache: the raw file as the DataFrame read_csv gives (a game id, a
\* string of digits, is read back as written; the pace, ortg and fta_rate
\* columns, which only generate_priors reads, are left out of the rows of the
\* pipeline and carried by the frames drawn under SpecPriors)
load_raw_cache(file) ==
    [k \in 1..Len(file) |-> [game_id |-> file[k].game_id,
                             team |-> ReadCsvStr(file[k].team),
                             game_state |-> ReadCsvStr(file[k].game_state),
                             team_state |-> ReadCsvStr(file[k].team_state),
                             poss |-> file[k].poss]]

\* append_to_csv with mode "w" for mode "a": the frame replaces the file
append_to_csv_truncating(df, file) == IF df = << >> THEN file ELSE df

\* append_to_csv: nothing is written for an empty frame, else the rows are added
\* at the end of the file
append_to_csv(df, file) == IF df = << >> THEN file ELSE file \o df

Key(r) == << r.game_id, r.team, r.game_state, r.team_state >>

(* ---------------- main (279-342): what a run reads at its start ---------------- *)
\* line 290 with SKIP_MEDIUM forgotten in the retry-errors filter
ProcessedIdsDoneOnly(manifest, retry) ==
    IF retry
    THEN {manifest[k].game_id : k \in {j \in 1..Len(manifest) : manifest[j].status = "DONE"}}
    ELSE {manifest[k].game_id : k \in 1..Len(manifest)}

\* line 290 with the retry-errors filter applied in both modes
ProcessedIdsSettledOnly(manifest, retry) ==
    {manifest[k].game_id : k \in {j \in 1..Len(manifest) : manifest[j].status \in {"DONE", "SKIP_MEDIUM"}}}

\* line 290 with the --retry-errors flag ignored
ProcessedIdsAnyEntry(manifest, retry) ==
    {manifest[k].game_id : k \in 1..Len(manifest)}

\* line 290
ProcessedIds(manifest, retry) ==
    IF retry
    THEN {manifest[k].game_id : k \in {j \in 1..Len(manifest) : manifest[j].status \in {"DONE", "SKIP_MEDIUM"}}}
    ELSE {manifest[k].game_id : k \in 1..Len(manifest)}

\* line 293
ExistingKeys(raw_df) == {Key(raw_df[k]) : k \in 1..Len(raw_df)}

\* line 301: [g for g in all_game_ids if g not in processed_ids]
RECURSIVE NewGameIds(_, _)
NewGameIds(all_game_ids, processed) ==
    IF all_game_ids = << >> THEN << >>
    ELSE IF Head(all_game_ids) \in processed
         THEN NewGameIds(Tail(all_game_ids), processed)
         ELSE << Head(all_game_ids) >> \o NewGameIds(Tail(all_game_ids), processed)

\* lines 318-323: the rows of a DONE game staged after the key filter, with the
\* key set they leave
RECURSIVE StageRows(_, _, _)
StageRows(rows, keys, acc) ==
    IF rows = << >> THEN [staged |-> acc, keys |-> keys]
    ELSE IF Key(Head(rows)) \in keys
         THEN StageRows(Tail(rows), keys, acc)
         ELSE StageRows(Tail(rows), keys \cup {Key(Head(rows))}, Append(acc, Head(rows)))

\* line 327: "SKIP" in status, on the statuses fetch_q4_rows_fallback returns
\* (DONE, SKIP_MEDIUM, ERROR_NO_DATA, ERROR_<exception type>)
StatusOf(status) == IF status = "SKIP_MEDIUM" THEN "SKIP_MEDIUM" ELSE "ERROR"

\* line 332
FlushDue(batch_manifest, i, n) == Len(batch_manifest) >= BATCH_SIZE \/ i = n

\* line 255: sorted(df["team"].unique()) compares NaN (a float) with a str
SortedRaises(frame) ==
    LET teams == {frame[k].team : k \in 1..Len(frame)}
    IN  NaN \in teams /\ Cardinality(teams) >= 2

\* lines 254 and 277: the top-level fields of the artifact
PriorsFields(frame) ==
    IF frame = << >> THEN {"season", "priors"}
    ELSE {"league", "season", "generated_at", "priors"}

(* ---------------- generate_priors (252-277) ---------------- *)
\* poss, pace and ortg are held in hundredths (the raw rows carry them rounded
\* to two decimals), fta_rate in ten-thousandths; sums and quotients are exact
\* where the code computes them in binary floating point.

\* the code points of the team names the model draws (Python compares str by
\* code point)
TeamCodes(t) ==
    CASE t = "BOS" -> << 66, 79, 83 >>
      [] t = "LAL" -> << 76, 65, 76 >>
      [] t = "MIA" -> << 77, 73, 65 >>
      [] OTHER -> << >>

RECURSIVE SeqLess(_, _)
SeqLess(a, b) ==
    IF b = << >> THEN FALSE
    ELSE IF a = << >> THEN TRUE
    ELSE IF Head(a) # Head(b) THEN Head(a) < Head(b)
    ELSE SeqLess(Tail(a), Tail(b))

\* a < b on str
StrLess(a, b) == SeqLess(TeamCodes(a), TeamCodes(b))

\* df[col].unique(): the distinct values in order of first appearance
RECURSIVE Unique(_, _)
Unique(values, acc) ==
    IF values = << >> THEN acc
    ELSE IF Head(values) \in SeqToSet(acc) THEN Unique(Tail(values), acc)
         ELSE Unique(Tail(values), Append(acc, Head(values)))

\* sorted() on a list of distinct str (a single NaN is returned as it is)
RECURSIVE Sorted(_)
Sorted(values) ==
    IF values = << >> THEN << >>
    ELSE LET S == SeqToSet(values)
             m == CHOOSE x \in S : \A y \in S \ {x} : StrLess(x, y)
         IN  << m >> \o Sorted(SelectSeq(values, LAMBDA v : v # m))

\* df[col].sum(), in hundredths
RECURSIVE SumPoss(_)
SumPoss(rows) == IF rows = << >> THEN 0 ELSE Head(rows).poss + SumPoss(Tail(rows))

RECURSIVE SumCol(_, _)
SumCol(rows, col) == IF rows = << >> THEN 0 ELSE Head(rows)[col] + SumCol(Tail(rows), col)

RECURSIVE SumWeighted(_, _)
SumWeighted(rows, col) ==
    IF rows = << >> THEN 0
    ELSE Head(rows)[col] * Head(rows).poss + SumWeighted(Tail(rows), col)

\* the plain mean of a column, as the fraction num / den
np_mean(rows, col) == [num |-> SumCol(rows, col), den |-> Len(rows)]

\* np.average(rows[col], weights=rows["poss"]), as the fraction num / den
np_average(rows, col) == [num |-> SumWeighted(rows, col), den |-> SumPoss(rows)]

\* round(x, 2) of x = num / den given in hundredths: to the nearest hundredth,
\* a tie to the even one
Round(x) ==
    LET q == x.num \div x.den
        r == x.num % x.den
    IN  IF 2 * r < x.den THEN q
        ELSE IF 2 * r > x.den THEN q + 1
        ELSE IF q % 2 = 0 THEN q ELSE q + 1

\* int(x) of a non-negative x in hundredths
PyInt(x100) == x100 \div 100

\* line 258 with the foul filter switched off
FoulFilterOff(close_df) == close_df

\* lines 257-258
FoulFilter(close_df) ==
    IF ENABLE_FOUL_FILTER
    THEN SelectSeq(close_df, LAMBDA r : r.fta_rate = NoneVal \/ r.fta_rate <= CLOSE_FTA_RATE_MAX)
    ELSE close_df

\* line 271 with > for >=
TreatmentQualifiesStrict(s_poss) == s_poss > 100 * TREATMENT_MIN_POSS

\* line 271
TreatmentQualifies(s_poss) == s_poss >= 100 * TREATMENT_MIN_POSS

\* lines 269-275: the field of one team state, when it qualifies (paceDelta and
\* pppDelta, which no property reads, are left out of the field)
StateField(blowout_df, state) ==
    LET s_df == SelectSeq(blowout_df, LAMBDA r : r.team_state = state)
        s_poss == SumPoss(s_df)
    IN  IF TreatmentQualifies(s_poss)
        THEN (state :> [nPoss |-> PyInt(s_poss)])
        ELSE << >>

\* lines 256-276: one pass of the team loop; << >> when nothing is appended
TeamEntry(frame, team) ==
    LET t_df == SelectSeq(frame, LAMBDA r : r.team # NaN /\ r.team = team)
        close_df == FoulFilter(SelectSeq(t_df, LAMBDA r : r.game_state = "close"))
        close_poss == SumPoss(close_df)
        blowout_df == SelectSeq(t_df, LAMBDA r : r.game_state = "blowout")
        entry == [team |-> team,
                  baseline |-> [pace |-> Round(np_average(close_df, "pace")),
                                ortg |-> Round(np_average(close_df, "ortg")),
                                nPoss |-> PyInt(close_poss)]]
                    @@ StateField(blowout_df, "leading")
                    @@ StateField(blowout_df, "trailing")
    IN  IF close_poss < 100 * BASELINE_MIN_POSS THEN << >>
        ELSE IF "leading" \in DOMAIN entry \/ "trailing" \in DOMAIN entry
             THEN << entry >>
             ELSE << >>

RECURSIVE TeamLoop(_, _)
TeamLoop(frame, teams) ==
    IF teams = << >> THEN << >>
    ELSE TeamEntry(frame, Head(teams)) \o TeamLoop(frame, Tail(teams))

\* generate_priors: ok is FALSE when sorted() raises; value is the dict returned
generate_priors(frame, season) ==
    IF frame = << >>
    THEN [ok |-> TRUE, exc |-> "", value |-> [season |-> season, priors |-> << >>]]
    ELSE IF SortedRaises(frame)
         THEN [ok |-> FALSE, exc |-> "TypeError", value |-> << >>]
         ELSE [ok |-> TRUE, exc |-> "",
               value |-> [league |-> "NBA", season |-> season, generated_at |-> "utcnow",
                          priors |-> TeamLoop(frame,
                                         Sorted(Unique([k \in 1..Len(frame) |-> frame[k].team],
                                                       << >>)))]]

(* ---------------- state ---------------- *)
Procs == {"A", "B"}

VARIABLES
    manifestFile,    \* processed_games_<season>.csv: the rows after the header
    rawFile,         \* raw_q4_data_<season>.csv: the rows after the header
    priorsFile,      \* blowout_priors_<season>.json
    pc,              \* where each process is in main
    retry_errors,    \* args.retry_errors
    manifest,        \* the manifest DataFrame loaded at line 289
    processed_ids,
    existing_keys,
    all_game_ids,    \* line 300
    new_game_ids,
    i,               \* the loop index of line 305, counted from 1
    batch_raw,
    batch_manifest,
    df,              \* the raw DataFrame loaded at line 339
    exit_code,
    log,             \* history: what each iteration of the run did
    runs,            \* runs started so far
    faults,          \* transient failures and raised exceptions so far
    retried,         \* history: some run so far was started with --retry-errors
    wire,            \* history: the last thing each process did on the network
                     \* (a request or a delay), and whether it has issued a
                     \* request right after another one
    cl_pc,           \* the synthetic game classified under SpecClassify: its step,
    cl_line,         \* its line score,
    cl_margins,      \* the result of get_q3_margins on it,
    cl_out,          \* the result of fetch_q4_rows_fallback on it
    pr_pc,           \* the synthetic raw frame aggregated under SpecPriors: its step,
    pr_df,           \* the frame (what load_raw_cache returned),
    pr_out           \* the result of generate_priors on it

pipe == << manifestFile, rawFile, priorsFile, pc, retry_errors, manifest,
           processed_ids, existing_keys, all_game_ids, new_game_ids, i,
           batch_raw, batch_manifest, df, exit_code, log, runs, faults, wire, retried >>

cl == << cl_pc, cl_line, cl_margins, cl_out >>

pr == << pr_pc, pr_df, pr_out >>

vars == << pipe, cl, pr >>

files == << manifestFile, rawFile, priorsFile >>

NoPriors == [state |-> "absent", fields |-> {}]

\* a process that has sent nothing yet
NoTraffic == [last |-> "none", undelayed |-> FALSE]

\* a request to the stats service (lines 179 and 191)
Request(w) == [last |-> "request", undelayed |-> w.undelayed \/ w.last = "request"]

\* lines 70-72
human_delay(w) == [last |-> "delay", undelayed |-> w.undelayed]

PipeInit ==
    /\ manifestFile = << >>
    /\ rawFile = << >>
    /\ priorsFile = NoPriors
    /\ pc = [p \in Procs |-> "idle"]
    /\ retry_errors = [p \in Procs |-> FALSE]
    /\ manifest = [p \in Procs |-> << >>]
    /\ processed_ids = [p \in Procs |-> {}]
    /\ existing_keys = [p \in Procs |-> {}]
    /\ all_game_ids = [p \in Procs |-> << >>]
    /\ new_game_ids = [p \in Procs |-> << >>]
    /\ i = [p \in Procs |-> 1]
    /\ batch_raw = [p \in Procs |-> << >>]
    /\ batch_manifest = [p \in Procs |-> << >>]
    /\ df = [p \in Procs |-> << >>]
    /\ exit_code = [p \in Procs |-> 0]
    /\ log = [p \in Procs |-> << >>]
    /\ runs = 0
    /\ faults = 0
    /\ wire = [p \in Procs |-> NoTraffic]
    /\ retried = FALSE

Stopped(p) == pc[p] \in {"idle", "exited"}

\* lines 285-293 behind a single-instance lock: a run starts only while no
\* other process is in a run
LoadExclusive(p) ==
    /\ \A q \in Procs : Stopped(q)
    /\ runs + faults < MaxEvents
    /\ runs' = runs + 1
    /\ \E retry \in BOOLEAN :
          /\ retry_errors' = [retry_errors EXCEPT ![p] = retry]
          /\ retried' = (retried \/ retry)
          /\ processed_ids' = [processed_ids EXCEPT ![p] = ProcessedIds(load_manifest(manifestFile), retry)]
    /\ manifest' = [manifest EXCEPT ![p] = load_manifest(manifestFile)]
    /\ existing_keys' = [existing_keys EXCEPT ![p] = ExistingKeys(load_raw_cache(rawFile))]
    /\ all_game_ids' = [all_game_ids EXCEPT ![p] = << >>]
    /\ new_game_ids' = [new_game_ids EXCEPT ![p] = << >>]
    /\ i' = [i EXCEPT ![p] = 1]
    /\ batch_raw' = [batch_raw EXCEPT ![p] = << >>]
    /\ batch_manifest' = [batch_manifest EXCEPT ![p] = << >>]
    /\ df' = [df EXCEPT ![p] = << >>]
    /\ exit_code' = [exit_code EXCEPT ![p] = 0]
    /\ log' = [log EXCEPT ![p] = << >>]
    /\ pc' = [pc EXCEPT ![p] = "discover"]
    /\ wire' = [wire EXCEPT ![p] = NoTraffic]
    /\ UNCHANGED << files, faults >>

\* lines 285-293: a run starts, parses its flag and loads the two files
Load(p) ==
    /\ Stopped(p)
    /\ runs + faults < MaxEvents
    /\ runs' = runs + 1
    /\ \E retry \in BOOLEAN :
          /\ retry_errors' = [retry_errors EXCEPT ![p] = retry]
          /\ retried' = (retried \/ retry)
          /\ processed_ids' = [processed_ids EXCEPT ![p] = ProcessedIds(load_manifest(manifestFile), retry)]
    /\ manifest' = [manifest EXCEPT ![p] = load_manifest(manifestFile)]
    /\ existing_keys' = [existing_keys EXCEPT ![p] = ExistingKeys(load_raw_cache(rawFile))]
    /\ all_game_ids' = [all_game_ids EXCEPT ![p] = << >>]
    /\ new_game_ids' = [new_game_ids EXCEPT ![p] = << >>]
    /\ i' = [i EXCEPT ![p] = 1]
    /\ batch_raw' = [batch_raw EXCEPT ![p] = << >>]
    /\ batch_manifest' = [batch_manifest EXCEPT ![p] = << >>]
    /\ df' = [df EXCEPT ![p] = << >>]
    /\ exit_code' = [exit_code EXCEPT ![p] = 0]
    /\ log' = [log EXCEPT ![p] = << >>]
    /\ pc' = [pc EXCEPT ![p] = "discover"]
    /\ wire' = [wire EXCEPT ![p] = NoTraffic]
    /\ UNCHANGED << files, faults >>

\* lines 295-298 without the `return` of line 298: main goes on to the final
\* aggregation with no game selected
DiscoverFailFinalizes(p) ==
    /\ pc[p] = "discover"
    /\ pc' = [pc EXCEPT ![p] = "finalize"]
    /\ wire' = [wire EXCEPT ![p] = Request(@)]
    /\ UNCHANGED << files, retry_errors, manifest, processed_ids, existing_keys,
                    new_game_ids, all_game_ids, i, batch_raw, batch_manifest, df, exit_code,
                    log, runs, faults, retried >>

\* lines 295-298: get_completed_game_data gives an empty frame (no rows, or an
\* exception swallowed at line 185) and main returns
DiscoverFail(p) ==
    /\ pc[p] = "discover"
    /\ pc' = [pc EXCEPT ![p] = "exited"]
    /\ wire' = [wire EXCEPT ![p] = Request(@)]
    /\ UNCHANGED << files, retry_errors, manifest, processed_ids, existing_keys,
                    new_game_ids, all_game_ids, i, batch_raw, batch_manifest, df, exit_code,
                    log, runs, faults, retried >>

\* lines 295-304: the finder lists the games completed so far, 1..n
Discover(p) ==
    /\ pc[p] = "discover"
    /\ \E n \in SeasonSizes :
          LET all == [k \in 1..n |-> k]
              new == NewGameIds(all, processed_ids[p])
          IN  /\ all_game_ids' = [all_game_ids EXCEPT ![p] = all]
              /\ new_game_ids' = [new_game_ids EXCEPT ![p] = new]
              /\ pc' = [pc EXCEPT ![p] = IF new = << >> THEN "finalize" ELSE "loop"]
    /\ wire' = [wire EXCEPT ![p] = Request(@)]
    /\ UNCHANGED << files, retry_errors, manifest, processed_ids, existing_keys,
                    i, batch_raw, batch_manifest, df, exit_code, log, runs, faults, retried >>

(* ---------------- main: the game loop (305-336) ---------------- *)
Gid(p) == new_game_ids[p][i[p]]
LastGame(p) == i[p] = Len(new_game_ids[p])

LogEntry(gid, path, exc, staged, rows) ==
    [gid |-> gid, path |-> path, exc |-> exc, staged |-> staged, rows |-> rows]

\* the for loop takes its next item, or ends and main goes on to line 338
NextGame(p) ==
    /\ i' = [i EXCEPT ![p] = i[p] + 1]
    /\ pc' = [pc EXCEPT ![p] = IF LastGame(p) THEN "finalize" ELSE "loop"]

\* line 332, reached at the end of the loop body
FlushCheck(p, bm) ==
    IF FlushDue(bm, i[p], Len(new_game_ids[p]))
    THEN /\ pc' = [pc EXCEPT ![p] = "flush_raw"]
         /\ i' = i
    ELSE NextGame(p)

\* the request of line 191: it may raise while the fault budget lasts
FetchFails(fails) == fails => runs + faults < MaxEvents

\* lines 307-311: no margins; the entry is staged and `continue` takes the next game
GameNoLineScore(p) ==
    /\ pc[p] = "loop"
    /\ \E fails \in BOOLEAN :
          LET margins == get_q3_margins(UpstreamSummary(Gid(p)), fails)
              entry == Entry(Gid(p), "ERROR", "no_linescore")
          IN  /\ FetchFails(fails)
              /\ ~margins.ok
              /\ faults' = IF fails THEN faults + 1 ELSE faults
              /\ batch_manifest' = [batch_manifest EXCEPT ![p] = Append(@, entry)]
              /\ log' = [log EXCEPT ![p] =
                            Append(@, LogEntry(Gid(p), "no_linescore", margins.exc, << entry >>, << >>))]
    /\ NextGame(p)
    /\ wire' = [wire EXCEPT ![p] = human_delay(Request(@))]
    /\ UNCHANGED << files, retry_errors, manifest, processed_ids, existing_keys,
                    new_game_ids, all_game_ids, batch_raw, df, exit_code, runs, retried >>

\* lines 307-327 and 332: margins, rows and status; rows and entry are staged
GameFetched(p) ==
    /\ pc[p] = "loop"
    /\ LET margins == get_q3_margins(UpstreamSummary(Gid(p)), FALSE)
           res == fetch_q4_rows_fallback(Gid(p), margins.m, UpstreamStats(Gid(p)))
           st == StageRows(res.rows, existing_keys[p], << >>)
           entry == IF res.status = "DONE"
                    THEN Entry(Gid(p), "DONE", "success")
                    ELSE Entry(Gid(p), StatusOf(res.status), res.status)
           bm == Append(batch_manifest[p], entry)
       IN  /\ margins.ok
           /\ IF res.status = "DONE"
              THEN /\ batch_raw' = [batch_raw EXCEPT ![p] = @ \o st.staged]
                   /\ existing_keys' = [existing_keys EXCEPT ![p] = st.keys]
                   /\ log' = [log EXCEPT ![p] =
                                 Append(@, LogEntry(Gid(p), "fetched", res.exc, << entry >>, st.staged))]
              ELSE /\ UNCHANGED << batch_raw, existing_keys >>
                   /\ log' = [log EXCEPT ![p] =
                                 Append(@, LogEntry(Gid(p), "fetched", res.exc, << entry >>, << >>))]
           /\ batch_manifest' = [batch_manifest EXCEPT ![p] = bm]
           /\ FlushCheck(p, bm)
    /\ wire' = [wire EXCEPT ![p] = human_delay(human_delay(Request(@)))]
    /\ UNCHANGED << files, retry_errors, manifest, processed_ids, new_game_ids, all_game_ids,
                    df, exit_code, runs, faults, retried >>

\* lines 306-330 without the handler of line 328: the exception ends the process
GameRaisesUncaught(p) ==
    /\ pc[p] = "loop"
    /\ runs + faults < MaxEvents
    /\ faults' = faults + 1
    /\ log' = [log EXCEPT ![p] = Append(@, LogEntry(Gid(p), "raised", "RuntimeError", << >>, << >>))]
    /\ pc' = [pc EXCEPT ![p] = "exited"]
    /\ exit_code' = [exit_code EXCEPT ![p] = 1]
    /\ wire' = [wire EXCEPT ![p] = human_delay(Request(@))]
    /\ UNCHANGED << files, retry_errors, manifest, processed_ids, existing_keys,
                    all_game_ids, new_game_ids, i, batch_raw, batch_manifest, df, runs, retried >>

\* lines 306-330 and 332: an exception is raised in the try body of main and
\* caught at line 328: before anything was staged (k = 0) or, in a DONE game, at
\* line 324 after the rows were staged. No manifest entry is staged. The
\* statements that can raise (310, 317-327) come after the delay of line 308.
GameRaises(p) ==
    /\ pc[p] = "loop"
    /\ runs + faults < MaxEvents
    /\ faults' = faults + 1
    /\ LET margins == get_q3_margins(UpstreamSummary(Gid(p)), FALSE)
           res == IF margins.ok
                  THEN fetch_q4_rows_fallback(Gid(p), margins.m, UpstreamStats(Gid(p)))
                  ELSE [rows |-> << >>, status |-> "", exc |-> ""]
       IN  \E k \in {0, Len(res.rows)} :
              LET st == StageRows(SubSeq(res.rows, 1, k), existing_keys[p], << >>) IN
              /\ batch_raw' = [batch_raw EXCEPT ![p] = @ \o st.staged]
              /\ existing_keys' = [existing_keys EXCEPT ![p] = st.keys]
              /\ log' = [log EXCEPT ![p] =
                            Append(@, LogEntry(Gid(p), "raised", "RuntimeError", << >>, st.staged))]
    /\ FlushCheck(p, batch_manifest[p])
    /\ wire' = [wire EXCEPT ![p] = human_delay(Request(@))]
    /\ UNCHANGED << files, retry_errors, manifest, processed_ids, new_game_ids, all_game_ids,
                    batch_manifest, df, exit_code, runs, retried >>

\* the flush without line 333: the raw batch is not appended
FlushRawDropped(p) ==
    /\ pc[p] = "flush_raw"
    /\ pc' = [pc EXCEPT ![p] = "flush_manifest"]
    /\ UNCHANGED << files, retry_errors, manifest, processed_ids,
                    existing_keys, new_game_ids, all_game_ids, i, batch_raw, batch_manifest, df,
                    exit_code, log, runs, faults, wire, retried >>

\* line 333
FlushRaw(p) ==
    /\ pc[p] = "flush_raw"
    /\ rawFile' = append_to_csv(batch_raw[p], rawFile)
    /\ pc' = [pc EXCEPT ![p] = "flush_manifest"]
    /\ UNCHANGED << manifestFile, priorsFile, retry_errors, manifest, processed_ids,
                    existing_keys, new_game_ids, all_game_ids, i, batch_raw, batch_manifest, df,
                    exit_code, log, runs, faults, wire, retried >>

\* lines 334-336
FlushManifest(p) ==
    /\ pc[p] = "flush_manifest"
    /\ manifestFile' = append_to_csv(batch_manifest[p], manifestFile)
    /\ batch_raw' = [batch_raw EXCEPT ![p] = << >>]
    /\ batch_manifest' = [batch_manifest EXCEPT ![p] = << >>]
    /\ NextGame(p)
    /\ UNCHANGED << rawFile, priorsFile, retry_errors, manifest, processed_ids,
                    existing_keys, new_game_ids, all_game_ids, df, exit_code, log, runs, faults, wire, retried >>

(* ---------------- main: the final aggregation (338-342) ---------------- *)
\* lines 339-340: the raw file is loaded and the artifact opened for writing
OpenPriors(p) ==
    /\ pc[p] = "finalize"
    /\ df' = [df EXCEPT ![p] = load_raw_cache(rawFile)]
    /\ priorsFile' = [state |-> "truncated", fields |-> {}]
    /\ pc' = [pc EXCEPT ![p] = "dump"]
    /\ UNCHANGED << manifestFile, rawFile, retry_errors, manifest, processed_ids,
                    existing_keys, new_game_ids, all_game_ids, i, batch_raw, batch_manifest,
                    exit_code, log, runs, faults, wire, retried >>

\* lines 341-342: generate_priors and json.dump; main returns, or the TypeError
\* of sorted() ends the process
DumpPriors(p) ==
    /\ pc[p] = "dump"
    /\ IF SortedRaises(df[p])
       THEN /\ exit_code' = [exit_code EXCEPT ![p] = 1]
            /\ UNCHANGED priorsFile
       ELSE /\ priorsFile' = [state |-> "written", fields |-> PriorsFields(df[p])]
            /\ UNCHANGED exit_code
    /\ pc' = [pc EXCEPT ![p] = "exited"]
    /\ UNCHANGED << manifestFile, rawFile, retry_errors, manifest, processed_ids,
                    existing_keys, new_game_ids, all_game_ids, i, batch_raw, batch_manifest, df,
                    log, runs, faults, wire, retried >>

\* the process is interrupted (KeyboardInterrupt, kill, power loss): what it held
\* in memory is gone, the files stay as they are
Crash(p) ==
    /\ ~Stopped(p)
    /\ pc' = [pc EXCEPT ![p] = "exited"]
    /\ exit_code' = [exit_code EXCEPT ![p] = 1]
    /\ retry_errors' = [retry_errors EXCEPT ![p] = FALSE]
    /\ manifest' = [manifest EXCEPT ![p] = << >>]
    /\ processed_ids' = [processed_ids EXCEPT ![p] = {}]
    /\ existing_keys' = [existing_keys EXCEPT ![p] = {}]
    /\ all_game_ids' = [all_game_ids EXCEPT ![p] = << >>]
    /\ new_game_ids' = [new_game_ids EXCEPT ![p] = << >>]
    /\ i' = [i EXCEPT ![p] = 1]
    /\ batch_raw' = [batch_raw EXCEPT ![p] = << >>]
    /\ batch_manifest' = [batch_manifest EXCEPT ![p] = << >>]
    /\ df' = [df EXCEPT ![p] = << >>]
    /\ log' = [log EXCEPT ![p] = << >>]
    /\ wire' = [wire EXCEPT ![p] = NoTraffic]
    /\ UNCHANGED << files, runs, faults, retried >>

(* ---------------- the classification of a synthetic game ---------------- *)
ClIdle ==
    /\ cl_pc = "off"
    /\ cl_line = << >>
    /\ cl_margins = [ok |-> FALSE, m |-> << >>, exc |-> ""]
    /\ cl_out = [rows |-> << >>, status |-> "", exc |-> ""]

\* the finder rows of the synthetic game
ClStats == << StatRow(1, "BOS", 110, 80, 20, 15, 10, 240),
              StatRow(2, "LAL", 90, 85, 10, 12, 8, 240) >>

\* a line score is drawn: the first-quarter points carry the totals
ClInit ==
    /\ cl_pc = "line"
    /\ \E a \in 0..MaxPts, b \in 0..MaxPts :
          cl_line = << LineRow(1, a, 0, NoneVal), LineRow(2, b, 0, NoneVal) >>
    /\ cl_margins = [ok |-> FALSE, m |-> << >>, exc |-> ""]
    /\ cl_out = [rows |-> << >>, status |-> "", exc |-> ""]

\* line 307 on the synthetic game
ClMargins ==
    /\ cl_pc = "line"
    /\ cl_margins' = get_q3_margins(Summary(cl_line), FALSE)
    /\ cl_pc' = "margins"
    /\ UNCHANGED << cl_line, cl_out >>

\* line 313 on the synthetic game
ClFetch ==
    /\ cl_pc = "margins"
    /\ cl_margins.ok
    /\ cl_out' = fetch_q4_rows_fallback(0, cl_margins.m, ClStats)
    /\ cl_pc' = "rows"
    /\ UNCHANGED << cl_line, cl_margins >>

(* ---------------- the aggregation of a synthetic raw frame ---------------- *)
NoOutput == [ok |-> FALSE, exc |-> "", value |-> << >>]

PrIdle ==
    /\ pr_pc = "off"
    /\ pr_df = << >>
    /\ pr_out = NoOutput

\* a row of the raw frame as load_raw_cache returns it
RawRow(team, game_state, team_state, pace, ortg, poss, fta_rate) ==
    [game_id |-> 0, team |-> team, game_state |-> game_state, team_state |-> team_state,
     pace |-> pace, ortg |-> ortg, poss |-> poss, fta_rate |-> fta_rate]

\* the close rows a team can have: pace / ortg 100 / 110 or 90 / 105,
\* poss 40, 50 or 60, fta_rate 0.35, 0.3501 or missing
CloseRowChoice(team, c) ==
    RawRow(team, "close", "neutral",
           IF c % 2 = 0 THEN 10000 ELSE 9000,
           IF c % 2 = 0 THEN 11000 ELSE 10500,
           << 4000, 5000, 6000 >>[((c \div 2) % 3) + 1],
           << 3500, 3501, NoneVal >>[(c \div 6) + 1])

\* up to MaxCloseRows of them, in the order of their numbers
CloseDraws ==
    {d \in UNION {[1..n -> 0..17] : n \in 0..MaxCloseRows} :
        \A j, k \in DOMAIN d : j < k => d[j] <= d[k]}

\* the possessions of the blowout rows a team can have in one team state
BlowoutDraws == {<< >>, << 1999 >>, << 2000 >>, << 2500 >>, << 1000, 1000 >>}

BlowoutRows(team, state, draw) ==
    [k \in 1..Len(draw) |->
        RawRow(team, "blowout", state,
               IF state = "leading" THEN 9600 ELSE 9400,
               IF state = "leading" THEN 10000 ELSE 9800,
               draw[k], 2000)]

\* a second team with a baseline and a leading bucket
OtherTeamRows ==
    << RawRow("BOS", "close", "neutral", 9800, 10800, 6000, 2000),
       RawRow("BOS", "blowout", "leading", 9500, 10000, 2500, 2000),
       RawRow("BOS", "close", "neutral", 9800, 10800, 6000, 2000) >>

\* a row whose team cell was read back as NaN
NoTeamRows == << RawRow(NaN, "close", "neutral", 9800, 10800, 6000, 2000) >>

\* a raw frame is drawn: the rows of team LAL, with or without the rows of a
\* second team (before or after them) and a row without team
PrInit ==
    /\ pr_pc = "frame"
    /\ pr_out = NoOutput
    /\ \E d \in CloseDraws, lead \in BlowoutDraws, trail \in BlowoutDraws \ {<< 1000, 1000 >>},
          other \in {"none", "before", "after"}, noTeam \in BOOLEAN :
          LET mine == BlowoutRows("LAL", "trailing", trail)
                        \o [k \in 1..Len(d) |-> CloseRowChoice("LAL", d[k])]
                        \o BlowoutRows("LAL", "leading", lead)
          IN  pr_df = (IF other = "before" THEN OtherTeamRows ELSE << >>)
                        \o mine
                        \o (IF noTeam THEN NoTeamRows ELSE << >>)
                        \o (IF other = "after" THEN OtherTeamRows ELSE << >>)

\* line 341: generate_priors(df, args.season)
PrGenerate ==
    /\ pr_pc = "frame"
    /\ pr_out' = generate_priors(pr_df, "2025-26")
    /\ pr_pc' = "out"
    /\ UNCHANGED pr_df

(* ---------------- specifications ---------------- *)
Init == PipeInit /\ ClIdle /\ PrIdle

\* one process at a time: the pipeline as it is meant to be run
SeqProcs == {"A"}

Next ==
    /\ UNCHANGED << cl, pr >>
    /\ \E p \in SeqProcs :
          \/ Load(p)
          \/ DiscoverFail(p)
          \/ Discover(p)
          \/ GameNoLineScore(p)
          \/ GameFetched(p)
          \/ GameRaises(p)
          \/ FlushRaw(p)
          \/ FlushManifest(p)
          \/ OpenPriors(p)
          \/ DumpPriors(p)
          \/ Crash(p)

Spec == Init /\ [][Next]_vars

\* two processes run main once each on the same season's files, at the same
\* time; no request fails and no process is interrupted meanwhile
NextConcurrent ==
    /\ UNCHANGED << cl, pr, faults >>
    /\ \E p \in Procs :
          \/ pc[p] = "idle" /\ Load(p)
          \/ DiscoverFail(p)
          \/ Discover(p)
          \/ GameNoLineScore(p)
          \/ GameFetched(p)
          \/ FlushRaw(p)
          \/ FlushManifest(p)
          \/ OpenPriors(p)
          \/ DumpPriors(p)

SpecConcurrent == Init /\ [][NextConcurrent]_vars

\* get_q3_margins and fetch_q4_rows_fallback applied to every drawn line score
InitClassify == PipeInit /\ ClInit /\ PrIdle

NextClassify ==
    /\ UNCHANGED << pipe, pr >>
    /\ \/ ClMargins
       \/ ClFetch

SpecClassify == InitClassify /\ [][NextClassify]_vars

\* generate_priors applied to every drawn raw frame
InitPriors == PipeInit /\ ClIdle /\ PrInit

NextPriors ==
    /\ UNCHANGED << pipe, cl >>
    /\ PrGenerate

SpecPriors == InitPriors /\ [][NextPriors]_vars

(* ======================= properties ======================= *)
InRun(p) == pc[p] \in {"loop", "flush_raw", "flush_manifest", "finalize", "dump"}

HasEntry(m, g) == \E k \in 1..Len(m) : m[k].game_id = g

HasSettled(m, g) ==
    \E k \in 1..Len(m) : m[k].game_id = g /\ m[k].status \in {"DONE", "SKIP_MEDIUM"}

ErrorOnly(m, g) == HasEntry(m, g) /\ ~HasSettled(m, g)

LogGids(p) == [k \in 1..Len(log[p]) |-> log[p][k].gid]

\* C1: the raw store never holds two rows with the same
\* (game_id, team, game_state, team_state) key, whatever runs, modes and
\* interruptions came before.
C1_UniqueKeys ==
    \A j, k \in 1..Len(rawFile) : j # k => Key(rawFile[j]) # Key(rawFile[k])

\* C2: a restarted run processes exactly the discovered games outside the
\* already-processed set (normal mode: games without any manifest entry;
\* retry-errors mode: games without a DONE or SKIP_MEDIUM entry), each once, and
\* never a game whose DONE or SKIP_MEDIUM entry is in the manifest file.
C2_Resume ==
    \A p \in SeqProcs :
        InRun(p) =>
            /\ SeqToSet(new_game_ids[p]) =
                  {g \in SeqToSet(all_game_ids[p]) :
                      IF retry_errors[p] THEN ~HasSettled(manifest[p], g)
                                         ELSE ~HasEntry(manifest[p], g)}
            /\ \A j, k \in 1..Len(new_game_ids[p]) :
                  j # k => new_game_ids[p][j] # new_game_ids[p][k]
            /\ pc[p] = "loop" => ~HasSettled(manifestFile, Gid(p))

\* a run restarted in retry-errors mode after the first batch of ten was flushed:
\* it retries a game with an ERROR entry and takes up a game without any entry
C2_Witness ==
    \E p \in SeqProcs :
        /\ pc[p] = "loop"
        /\ retry_errors[p]
        /\ Len(manifest[p]) = BATCH_SIZE
        /\ \E g \in SeqToSet(new_game_ids[p]) : ErrorOnly(manifest[p], g)
        /\ \E g \in SeqToSet(new_game_ids[p]) : ~HasEntry(manifest[p], g)
        /\ \E g \in SeqToSet(all_game_ids[p]) : HasSettled(manifest[p], g)

\* C3 as stated: in every run a game whose only manifest entries are ERROR is
\* selected for processing again.
C3_ErrorOnlySelected ==
    \A p \in SeqProcs :
        InRun(p) =>
            \A g \in SeqToSet(all_game_ids[p]) :
                ErrorOnly(manifest[p], g) => g \in SeqToSet(new_game_ids[p])

\* C3 amended: in retry-errors mode only DONE and SKIP_MEDIUM entries make a game
\* count as processed, so a game with only ERROR entries is selected again; in
\* normal mode an entry of any status, ERROR included, makes it count as
\* processed and the game is not selected.
C3_ByMode ==
    \A p \in SeqProcs :
        InRun(p) =>
            \A g \in SeqToSet(all_game_ids[p]) :
                /\ retry_errors[p] /\ ErrorOnly(manifest[p], g)
                      => g \in SeqToSet(new_game_ids[p])
                /\ ~retry_errors[p] /\ HasEntry(manifest[p], g)
                      => g \notin SeqToSet(new_game_ids[p])
                /\ HasSettled(manifest[p], g) => g \notin SeqToSet(new_game_ids[p])

\* a retry-errors run is processing a game whose only entries are ERROR
C3_Witness ==
    \E p \in SeqProcs :
        /\ pc[p] = "loop"
        /\ retry_errors[p]
        /\ ErrorOnly(manifest[p], Gid(p))

\* C4: when the game loop has ended, nothing staged is left unflushed.
C4_AllFlushed ==
    \A p \in SeqProcs :
        pc[p] \in {"finalize", "dump"} =>
            batch_manifest[p] = << >> /\ batch_raw[p] = << >>

\* C5: at the end of every loop iteration fewer than BATCH_SIZE manifest entries
\* are staged, and no flush writes more than BATCH_SIZE manifest entries.
C5_BatchBounded ==
    \A p \in SeqProcs :
        /\ pc[p] \in {"loop", "finalize"} => Len(batch_manifest[p]) < 10
        /\ pc[p] \in {"flush_raw", "flush_manifest"} => Len(batch_manifest[p]) <= 10

\* C6: every game processed in a run gets exactly one staged manifest entry, of
\* status DONE, SKIP_MEDIUM or ERROR.
C6_OneEntryPerGame ==
    \A p \in SeqProcs :
        \A k \in 1..Len(log[p]) :
            /\ Len(log[p][k].staged) = 1
            /\ log[p][k].staged[1].game_id = log[p][k].gid
            /\ log[p][k].staged[1].status \in {"DONE", "SKIP_MEDIUM", "ERROR"}

\* C7: a failure while one game is processed does not end the run: the games
\* attempted so far are the selected games up to the loop index, each once and
\* in order, and a run that left the loop or ended has attempted all of them.
C7_FailureDoesNotEndRun ==
    \A p \in SeqProcs :
        /\ pc[p] = "loop" => LogGids(p) = SubSeq(new_game_ids[p], 1, i[p] - 1)
        /\ pc[p] \in {"flush_raw", "flush_manifest"}
              => LogGids(p) = SubSeq(new_game_ids[p], 1, i[p])
        /\ pc[p] \in {"finalize", "dump"} => LogGids(p) = new_game_ids[p]
        /\ pc[p] = "exited" /\ log[p] # << >> => LogGids(p) = new_game_ids[p]

\* the loop of a run is over although one of its games, not the last one, failed
C7_Witness ==
    \E p \in SeqProcs :
        /\ pc[p] = "finalize"
        /\ \E k \in 1..(Len(log[p]) - 1) :
              log[p][k].exc # "" \/ log[p][k].path = "no_linescore"
        /\ \E k \in 1..Len(log[p]) : log[p][k].path = "raised"

\* C8: a game whose line-score fetch, classification or metric step raised an
\* exception gets an ERROR entry whose reason names the kind of the exception.
C8_ErrorNamesException ==
    \A p \in SeqProcs :
        \A k \in 1..Len(log[p]) :
            log[p][k].exc # "" /\ log[p][k].path # "raised" =>
                /\ Len(log[p][k].staged) = 1
                /\ log[p][k].staged[1].status = "ERROR"
                /\ log[p][k].staged[1].reason = "ERROR_" \o log[p][k].exc

\* C9: a game without a usable line score is recorded in the manifest as
\* ERROR / no_linescore, stages no raw row, and the run goes on: once the loop of
\* the run is over the entry is in the manifest file, after what the run loaded.
C9_NoLineScoreRecorded ==
    \A p \in SeqProcs :
        \A k \in 1..Len(log[p]) :
            log[p][k].path = "no_linescore" =>
                /\ log[p][k].staged = << Entry(log[p][k].gid, "ERROR", "no_linescore") >>
                /\ log[p][k].rows = << >>
                /\ pc[p] \in {"finalize", "dump", "exited"} =>
                      \E j \in (Len(manifest[p]) + 1)..Len(manifestFile) :
                          manifestFile[j] = Entry(log[p][k].gid, "ERROR", "no_linescore")

\* the team of the synthetic game with a TEAM_ID
ClTeam(t) == IF t = 1 THEN "BOS" ELSE "LAL"

ClRowsOf(t) == {k \in 1..Len(cl_out.rows) : cl_out.rows[k].team = ClTeam(t)}

\* C10: a margin m with |m| >= 15 gives one blowout row, leading for m > 0 and
\* trailing for m < 0; |m| <= 10 gives one close / neutral row; 10 < |m| < 15
\* gives no row for the team.
C10_Classification ==
    cl_pc = "rows" =>
        \A t \in {1, 2} :
            LET m == cl_margins.m[t] IN
            /\ Abs(m) >= 15 =>
                  /\ Cardinality(ClRowsOf(t)) = 1
                  /\ \A k \in ClRowsOf(t) :
                        /\ cl_out.rows[k].game_state = "blowout"
                        /\ m > 0 => cl_out.rows[k].team_state = "leading"
                        /\ m < 0 => cl_out.rows[k].team_state = "trailing"
            /\ Abs(m) <= 10 =>
                  /\ Cardinality(ClRowsOf(t)) = 1
                  /\ \A k \in ClRowsOf(t) :
                        /\ cl_out.rows[k].game_state = "close"
                        /\ cl_out.rows[k].team_state = "neutral"
            /\ Abs(m) > 10 /\ Abs(m) < 15 => ClRowsOf(t) = {}

\* margins (+15, -15), the smallest blowout: a leading and a trailing row
C10_Witness ==
    /\ cl_pc = "rows"
    /\ cl_margins.m[1] = 15
    /\ cl_margins.m[2] = -15
    /\ Len(cl_out.rows) = 2
    /\ cl_out.rows[1].team_state = "leading"
    /\ cl_out.rows[2].team_state = "trailing"

\* every finder row of the game has a computed possession count <= 0
NoPossessions(g) ==
    \A k \in 1..Len(UpstreamStats(g)) :
        LET r == UpstreamStats(g)[k] IN
        /\ ~(\E x \in {r.PTS, r.FGA, r.FTA, r.TOV, r.OREB, r.MIN} : FloatRaises(x))
        /\ Poss100(r) <= 0

\* C11: a game whose possession count is non-positive for both teams is staged
\* as SKIP_MEDIUM with no raw row, and in every iteration raw rows are staged
\* only together with a DONE manifest entry of that game, so an iteration that
\* stages a SKIP_MEDIUM or ERROR entry stages no raw row.
C11_RowsOnlyWhenDone ==
    \A p \in SeqProcs :
        \A k \in 1..Len(log[p]) :
            LET e == log[p][k] IN
            /\ e.path = "fetched" /\ NoPossessions(e.gid) =>
                  /\ e.staged = << Entry(e.gid, "SKIP_MEDIUM", "SKIP_MEDIUM") >>
                  /\ e.rows = << >>
            /\ e.rows # << >> =>
                  /\ Len(e.staged) = 1
                  /\ e.staged[1].game_id = e.gid
                  /\ e.staged[1].status = "DONE"
            /\ Len(e.staged) = 1 /\ e.staged[1].status \in {"SKIP_MEDIUM", "ERROR"} =>
                  e.rows = << >>

\* the run of p has ended at line 298 (no crash, no game list)
DiscoveryFailed(p) ==
    pc[p] = "exited" /\ exit_code[p] = 0 /\ all_game_ids[p] = << >> /\ runs > 0

\* C12: a run whose game discovery fails ends there: from its start to its end
\* it processes no game and leaves the manifest file, the raw file and the
\* priors artifact exactly as they were.
C12_DiscoveryFailureWritesNothing ==
    [][\A p \in SeqProcs :
          /\ pc[p] # "discover" /\ pc'[p] = "discover" => files' = files
          /\ pc[p] = "discover" /\ pc'[p] # "discover" /\ all_game_ids'[p] = << >> =>
                /\ pc'[p] = "exited"
                /\ files' = files
                /\ log'[p] = << >>
                /\ batch_manifest'[p] = << >> /\ batch_raw'[p] = << >>]_vars

\* discovery failed in a run started on files that earlier runs had filled
C12_Witness ==
    \E p \in SeqProcs :
        /\ DiscoveryFailed(p)
        /\ manifestFile # << >>
        /\ rawFile # << >>
        /\ priorsFile.state = "written"

\* C13: the process ends with exit code 0 when the run completes normally (the
\* artifact is written and main returns) and with a non-zero exit code when it
\* ends because game discovery failed.
C13_ExitCodes ==
    [][\A p \in SeqProcs :
          /\ pc[p] = "dump" /\ pc'[p] = "exited" /\ priorsFile'.state = "written" =>
                exit_code'[p] = 0
          /\ pc[p] = "discover" /\ pc'[p] = "exited" => exit_code'[p] # 0]_vars

(* ---------------- generate_priors on the drawn frame ---------------- *)
\* the team names of the frame (a missing name is no team)
PrTeams == {pr_df[k].team : k \in 1..Len(pr_df)} \ {NaN}

PrPriors == pr_out.value.priors

PrListed(t) == \E k \in 1..Len(PrPriors) : PrPriors[k].team = t

\* the close rows of team t that pass the foul filter
ClosePassing(t) ==
    SelectSeq(pr_df, LAMBDA r : /\ r.team = t
                                /\ r.game_state = "close"
                                /\ (r.fta_rate = NoneVal \/ r.fta_rate <= CLOSE_FTA_RATE_MAX))

\* the blowout rows of team t in one team state
Bucket(t, state) ==
    SelectSeq(pr_df, LAMBDA r : /\ r.team = t
                                /\ r.game_state = "blowout"
                                /\ r.team_state = state)

HasBaseline(t) == SumPoss(ClosePassing(t)) >= 100 * BASELINE_MIN_POSS

HasBucket(t, state) == SumPoss(Bucket(t, state)) >= 100 * TREATMENT_MIN_POSS

C15_BucketFields ==
    pr_pc = "out" /\ pr_out.ok =>
        \A k \in 1..Len(PrPriors) :
            LET e == PrPriors[k] IN
            /\ "trailing" \in DOMAIN e <=> HasBucket(e.team, "trailing")
            /\ "leading" \in DOMAIN e <=> HasBucket(e.team, "leading")

\* a listed team with a leading field and no trailing field: its trailing rows
\* total 19.99 possessions
C15_Witness ==
    /\ pr_pc = "out" /\ pr_out.ok
    /\ \E k \in 1..Len(PrPriors) :
          /\ PrPriors[k].team = "LAL"
          /\ "leading" \in DOMAIN PrPriors[k]
          /\ "trailing" \notin DOMAIN PrPriors[k]
          /\ SumPoss(Bucket("LAL", "trailing")) = 1999

\* out, in hundredths, is num / den rounded to the nearest hundredth
NearestHundredth(out, num, den) == 2 * Abs(out * den - num) <= den

\* C16 as stated: the baseline pace and the baseline ortg of a listed team are
\* equal to the possession-weighted mean over its filtered close rows,
\* sum(x_i * poss_i) / sum(poss_i).
C16_ExactWeightedMean ==
    pr_pc = "out" /\ pr_out.ok =>
        \A k \in 1..Len(PrPriors) :
            LET e == PrPriors[k]
                rows == ClosePassing(e.team)
            IN  /\ e.baseline.pace * SumPoss(rows) = SumWeighted(rows, "pace")
                /\ e.baseline.ortg * SumPoss(rows) = SumWeighted(rows, "ortg")

\* C16 amended: the baseline pace and the baseline ortg of a listed team are
\* the possession-weighted mean over its filtered close rows rounded to two
\* decimals; (pace 100, poss 50) and (pace 90, poss 50) give 95.
C16_RoundedWeightedMean ==
    pr_pc = "out" /\ pr_out.ok =>
        \A k \in 1..Len(PrPriors) :
            LET e == PrPriors[k]
                rows == ClosePassing(e.team)
            IN  /\ NearestHundredth(e.baseline.pace, SumWeighted(rows, "pace"), SumPoss(rows))
                /\ NearestHundredth(e.baseline.ortg, SumWeighted(rows, "ortg"), SumPoss(rows))
                /\ {<< rows[j].pace, rows[j].poss >> : j \in 1..Len(rows)}
                      = {<< 10000, 5000 >>, << 9000, 5000 >>} /\ Len(rows) = 2
                      => e.baseline.pace = 9500

\* close rows (pace 100, poss 50) and (pace 90, poss 60): the weighted mean
\* 94.5454... is listed as 94.55, the plain mean would be 95
C16_Witness ==
    /\ pr_pc = "out" /\ pr_out.ok
    /\ \E k \in 1..Len(PrPriors) :
          /\ PrPriors[k].team = "LAL"
          /\ {<< r.pace, r.poss >> : r \in SeqToSet(ClosePassing("LAL"))}
                = {<< 10000, 5000 >>, << 9000, 6000 >>}
          /\ PrPriors[k].baseline.pace = 9455

\* C17: every artifact generate_priors returns, for every raw frame, the empty
\* one included, carries the four top-level fields league, season, generated_at
\* and priors.
C17_FourFields ==
    pr_pc = "out" /\ pr_out.ok =>
        DOMAIN pr_out.value = {"league", "season", "generated_at", "priors"}

\* C18: in a run every summary request is followed by a randomized delay and
\* preceded by one, so no request to the stats service, the discovery request
\* included, is issued right after another request.
C18_DelayBetweenRequests ==
    \A p \in SeqProcs :
        /\ InRun(p) /\ log[p] # << >> => wire[p].last = "delay"
        /\ ~wire[p].undelayed

IsPrefix(a, b) == Len(a) <= Len(b) /\ SubSeq(b, 1, Len(a)) = a

\* C19: no step of any run (load, flush, aggregation, interruption) changes or
\* removes what the manifest file and the raw file hold: each step leaves the
\* lines of both files in place and in order and at most adds lines at the end.
C19_AppendOnly ==
    [][IsPrefix(manifestFile, manifestFile') /\ IsPrefix(rawFile, rawFile')]_vars

\* a run started on files that an earlier run had filled has appended a batch
\* after their lines
C19_Witness ==
    \E p \in SeqProcs :
        /\ InRun(p)
        /\ manifest[p] # << >>
        /\ Len(manifestFile) > Len(manifest[p])
        /\ \E k \in 1..Len(log[p]) :
              /\ log[p][k].rows # << >>
              /\ \E j \in 2..Len(rawFile) : rawFile[j] = log[p][k].rows[1]

\* C20: nothing keeps two runs on the same files apart: a process can start its
\* run, and append its raw and manifest batches, whatever the other process is
\* doing (the interleaving that leaves two rows with one key in the raw file
\* is C20_Witness).
C20_NoSingleInstanceGuard ==
    \A p \in Procs :
        /\ pc[p] = "idle" => ENABLED Load(p)
        /\ pc[p] = "flush_raw" => ENABLED FlushRaw(p)
        /\ pc[p] = "flush_manifest" => ENABLED FlushManifest(p)

\* both processes loaded the files before either appended to them, both ran to
\* their end, and the raw file holds two rows with the same key whose team
\* name is read back from the file as it was written
C20_Witness ==
    /\ \A p \in Procs : pc[p] = "exited" /\ exit_code[p] = 0 /\ manifest[p] = << >>
                          /\ all_game_ids[p] # << >>
    /\ \E j, k \in 1..Len(rawFile) :
          /\ j < k
          /\ Key(rawFile[j]) = Key(rawFile[k])
          /\ rawFile[j].team \notin NaValues

\* the rows fetch_q4_rows_fallback produces for game g
RowsProduced(g) ==
    LET margins == get_q3_margins(UpstreamSummary(g), FALSE)
    IN  IF margins.ok
        THEN fetch_q4_rows_fallback(g, margins.m, UpstreamStats(g)).rows
        ELSE << >>

InRawFile(r) == \E j \in 1..Len(rawFile) : rawFile[j] = r

\* C21: in every state of the files, the one left by an interruption between
\* the two appends of a flush included, every game with a DONE entry in the
\* manifest file has all the rows produced for it in the raw file; and when a
\* flush is about to append its manifest entries its raw rows are in the file.
C21_DoneHasItsRows ==
    /\ \A k \in 1..Len(manifestFile) :
          manifestFile[k].status = "DONE" =>
              /\ RowsProduced(manifestFile[k].game_id) # << >>
              /\ \A r \in SeqToSet(RowsProduced(manifestFile[k].game_id)) : InRawFile(r)
    /\ \A p \in SeqProcs :
          pc[p] = "flush_manifest" => \A r \in SeqToSet(batch_raw[p]) : InRawFile(r)

\* a run was interrupted between the two appends of a flush: the raw file holds
\* rows of a game that has no manifest entry, and a DONE game has its rows
C21_Witness ==
    /\ faults = 0
    /\ \A p \in SeqProcs : pc[p] = "exited" /\ exit_code[p] = 1
    /\ \E j \in 1..Len(rawFile) : ~HasEntry(manifestFile, rawFile[j].game_id)
    /\ \E k \in 1..Len(manifestFile) : manifestFile[k].status = "DONE"

RawRowsOf(g) == {j \in 1..Len(rawFile) : rawFile[j].game_id = g}

\* C22: the two margins of a game are negatives of each other, and in the raw
\* file all rows of one game carry the same game_state, a close game has only
\* neutral rows, and a blowout game has at most one leading row and at most one
\* trailing row.
C22_OneRowPerSide ==
    /\ \A p \in SeqProcs :
          \A k \in 1..Len(log[p]) :
              LET margins == get_q3_margins(UpstreamSummary(log[p][k].gid), FALSE) IN
              margins.ok =>
                  \A t, u \in DOMAIN margins.m : t # u => margins.m[t] = -margins.m[u]
    /\ \A j \in 1..Len(rawFile) :
          LET r == rawFile[j] IN
          /\ \A k \in RawRowsOf(r.game_id) : rawFile[k].game_state = r.game_state
          /\ r.game_state = "close" => r.team_state = "neutral"
          /\ r.game_state = "blowout" =>
                /\ r.team_state \in {"leading", "trailing"}
                /\ \A k \in RawRowsOf(r.game_id) :
                      rawFile[k].team_state = r.team_state => k = j

\* C23: under sequential runs in any mix of modes, interrupted or not, the
\* manifest file holds at most one DONE or SKIP_MEDIUM entry per game id, and
\* as long as every run was in normal mode at most one entry of any status.
C23_OneSettledEntry ==
    \A j, k \in 1..Len(manifestFile) :
        j # k /\ manifestFile[j].game_id = manifestFile[k].game_id =>
            /\ ~(/\ manifestFile[j].status \in {"DONE", "SKIP_MEDIUM"}
                  /\ manifestFile[k].status \in {"DONE", "SKIP_MEDIUM"})
            /\ retried

\* a game recorded ERROR by one run and DONE by a later run in retry-errors
\* mode: two entries, one of them settled
C23_Witness ==
    \E j, k \in 1..Len(manifestFile) :
        /\ j < k
        /\ manifestFile[j].game_id = manifestFile[k].game_id
        /\ manifestFile[j].status = "ERROR"
        /\ manifestFile[k].status = "DONE"

====
